---- MODULE Spec2Model ----
(***************************************************************************)
(* Model of assistant.py: a command-line tool that reads a source file,     *)
(* embeds it in a prompt, POSTs the prompt to a local Ollama server, prints *)
(* the reply and saves it to output/out-NNNNN.md.                           *)
(*                                                                         *)
(* Text is a sequence of tokens.  File names in the output directory are   *)
(* sequences of single characters, so that the regular expression and the  *)
(* number formatting of save_response_to_file are modelled character by    *)
(* character; other literals of the program are one token each.            *)
(***************************************************************************)
EXTENDS Integers, Sequences, FiniteSets, TLC

\* ------------------------------------------------------------------------
\* Bounds of the model
\* ------------------------------------------------------------------------
\* number of invocations of the tool in one behaviour
MaxRuns == 2
\* number of files in the output directory before the first invocation
MaxInitFiles == 2
\* number of generate_prompt calls compared with each other
MaxCalls == 2

\* ------------------------------------------------------------------------
\* Program constants
\* ------------------------------------------------------------------------
OUTPUT_DIR == <<"output">>
MODEL_NAME == "gemma3:4b"
\* the 5 of \d{5} and of :05d
Width == 5

\* ------------------------------------------------------------------------
\* Characters, digits, integer parsing and formatting
\* ------------------------------------------------------------------------
Digits == <<"0", "1", "2", "3", "4", "5", "6", "7", "8", "9">>

IsDigit(c) == \E d \in 1..10 : Digits[d] = c

DigitVal(c) == (CHOOSE d \in 1..10 : Digits[d] = c) - 1

\* int(match.group(1)) on a string of decimal digits
RECURSIVE ParseInt(_)
ParseInt(ds) ==
    IF ds = <<>> THEN 0
    ELSE 10 * ParseInt(SubSeq(ds, 1, Len(ds) - 1)) + DigitVal(ds[Len(ds)])

\* str(n) for n >= 0
RECURSIVE ToDigits(_)
ToDigits(n) ==
    IF n < 10 THEN <<Digits[n + 1]>>
    ELSE ToDigits(n \div 10) \o <<Digits[(n % 10) + 1]>>

RECURSIVE Zeros(_)
Zeros(k) == IF k <= 0 THEN <<>> ELSE <<"0">> \o Zeros(k - 1)

\* f"{n:05d}" for n >= 0: zero-padded to a MINIMUM width of five
Format05d(n) ==
    LET s == ToDigits(n) IN Zeros(Width - Len(s)) \o s

NamePrefix == <<"o", "u", "t", "-">>
NameSuffix == <<".", "m", "d">>

\* pattern.match(filename) for r"out-(\d{5})\.md": anchored at the start of
\* the name only, so anything may follow the ".md"
PatternMatch(filename) ==
    /\ Len(filename) >= Len(NamePrefix) + Width + Len(NameSuffix)
    /\ SubSeq(filename, 1, Len(NamePrefix)) = NamePrefix
    /\ \A i \in (Len(NamePrefix) + 1)..(Len(NamePrefix) + Width) : IsDigit(filename[i])
    /\ SubSeq(filename, Len(NamePrefix) + Width + 1,
              Len(NamePrefix) + Width + Len(NameSuffix)) = NameSuffix

\* match.group(1)
Group1(filename) == SubSeq(filename, Len(NamePrefix) + 1, Len(NamePrefix) + Width)

\* the scan loop: max_num starts at -1 and is raised by every matching name
ScanMaxNum(listing) ==
    LET nums == {ParseInt(Group1(f)) : f \in {g \in listing : PatternMatch(g)}}
    IN IF nums = {} THEN -1 ELSE CHOOSE m \in nums : \A k \in nums : k <= m

\* f"out-{next_num:05d}.md"
OutputName(next_num) == NamePrefix \o Format05d(next_num) \o NameSuffix

\* os.path.join(OUTPUT_DIR, name)
OutputPath(name) == OUTPUT_DIR \o <<"/">> \o name

\* ------------------------------------------------------------------------
\* Text built by the program
\* ------------------------------------------------------------------------
LF == "\n"
CR == "\r"
\* a byte that is not valid UTF-8
BadByte == "<FF>"

\* f.read() of a file opened with open(path, 'r', encoding='utf-8'): text
\* mode with universal newlines turns "\r\n" and a lone "\r" into "\n"
RECURSIVE ReadText(_)
ReadText(raw) ==
    IF raw = <<>> THEN <<>>
    ELSE IF raw[1] = CR
         THEN IF Len(raw) >= 2 /\ raw[2] = LF
              THEN <<LF>> \o ReadText(SubSeq(raw, 3, Len(raw)))
              ELSE <<LF>> \o ReadText(Tail(raw))
         ELSE <<raw[1]>> \o ReadText(Tail(raw))

Decodable(raw) == \A i \in 1..Len(raw) : raw[i] # BadByte

system_prompt ==
    << "You are a helpful and knowledgeable code assistant. ",
       "Your task is to analyze the provided code and answer the user's question. ",
       "Be concise and clear in your explanation, and provide code examples if they are relevant to the user's query." >>

CodeFileHeader == "--- CODE FILE: "
HeaderEnd == " ---"
\* the backquote character is written <bq> in the tokens below
Backquote == "<bq>"
Fence == "<bq><bq><bq>"
QuestionHeader == "--- USER QUESTION ---"

\* what stands between the template's start and the file contents
PromptHead(file_path) ==
    system_prompt \o <<LF, LF>> \o <<CodeFileHeader>> \o file_path \o <<HeaderEnd, LF>>
    \o <<Fence, LF>>

\* what stands between the file contents and the query
PromptMiddle == <<LF, Fence, LF, LF>> \o <<QuestionHeader, LF>>

\* variant: the query and the contents change places
FullPromptQueryFirst(file_path, code_content, user_query) ==
    PromptHead(file_path) \o user_query \o PromptMiddle \o code_content

\* full_prompt, lines 67-73
FullPrompt(file_path, code_content, user_query) ==
    PromptHead(file_path) \o code_content \o PromptMiddle \o user_query

\* os.path.basename(file_path): what follows the last "/"
RECURSIVE Basename(_)
Basename(path) ==
    IF \E i \in 1..Len(path) : path[i] = "/"
    THEN Basename(Tail(path))
    ELSE path

\* output_content, line 120
OutputContent(file_path, user_query, response_text) ==
    <<"# Analysis of: ", Backquote>> \o Basename(file_path) \o <<Backquote, LF, LF, "**Query:**", LF, "> ">>
    \o user_query \o <<LF, LF, "---", LF, LF>> \o response_text

\* s occurs in t as a contiguous piece
Contains(t, s) ==
    \E i \in 0..(Len(t) - Len(s)) : SubSeq(t, i + 1, i + Len(s)) = s

\* ------------------------------------------------------------------------
\* State
\* ------------------------------------------------------------------------
VARIABLES
    fs,         \* the files: path -> raw contents
    dirExists,  \* whether the directory OUTPUT_DIR exists
    inv,        \* inv[p]: the invocation of the tool run by process p
    runs,       \* invocations started so far
    calls       \* generate_prompt calls made under SpecPrompt, with their results

vars == <<fs, dirExists, inv, runs, calls>>

Procs == {1, 2}

\* ------------------------------------------------------------------------
\* The file system
\* ------------------------------------------------------------------------
IsOutputFile(path) ==
    /\ Len(path) >= 3
    /\ SubSeq(path, 1, 2) = OUTPUT_DIR \o <<"/">>
    /\ \A i \in 3..Len(path) : path[i] # "/"

\* os.listdir(OUTPUT_DIR)
Listing(fsys) == {SubSeq(q, 3, Len(q)) : q \in {r \in DOMAIN fsys : IsOutputFile(r)}}

\* open(path, 'w') and f.write(content): the file is created or replaced
WriteFile(fsys, path, content) == (path :> content) @@ fsys

\* open(file_path, 'r', encoding='utf-8') and f.read(), lines 56-57
OpenAndRead(fsys, dir, file_path) ==
    IF file_path = OUTPUT_DIR
    THEN IF dir THEN [kind |-> "io_error", text |-> <<>>]
                ELSE [kind |-> "not_found", text |-> <<>>]
    ELSE IF file_path \notin DOMAIN fsys THEN [kind |-> "not_found", text |-> <<>>]
    ELSE IF ~Decodable(fsys[file_path]) THEN [kind |-> "decode_error", text |-> <<>>]
    ELSE [kind |-> "ok", text |-> ReadText(fsys[file_path])]

\* generate_prompt as a function of the file system and its arguments:
\* the prompt it returns, or the way it ends the process
GeneratePromptResult(fsys, dir, file_path, user_query) ==
    LET r == OpenAndRead(fsys, dir, file_path) IN
    IF r.kind = "ok"
    THEN [kind |-> "ok", prompt |-> FullPrompt(file_path, r.text, user_query)]
    ELSE [kind |-> r.kind, prompt |-> <<>>]

\* ------------------------------------------------------------------------
\* The HTTP call
\* ------------------------------------------------------------------------
Replies == {<<"It parses the arguments.">>}

FailureKinds == {"connection_error", "timeout", "http_error", "bad_json"}

HttpOutcomes ==
    {[kind |-> "ok", text |-> r] : r \in Replies}
    \cup {[kind |-> k, text |-> <<>>] :
            k \in FailureKinds \cup {"no_response_key", "not_object"}}

ConnectError(kind) == <<"An error occurred while connecting to Ollama: ", kind>>
UnexpectedError(kind) == <<"An unexpected error occurred: ", kind>>
NoResponseFound == <<"No response found in the API output.">>

ErrorStrings ==
    {ConnectError(k) : k \in FailureKinds} \cup {UnexpectedError(k) : k \in FailureKinds}

\* what get_response_from_ollama returns for each outcome of the POST.  A body
\* that is not JSON raises requests' JSONDecodeError, a RequestException in
\* requests >= 2.27 and a plain ValueError before: either handler may run.
ReturnTexts(outcome) ==
    CASE outcome.kind = "ok" -> {outcome.text}
      [] outcome.kind = "no_response_key" -> {NoResponseFound}
      [] outcome.kind \in {"connection_error", "timeout", "http_error"} ->
            {ConnectError(outcome.kind)}
      [] outcome.kind = "bad_json" ->
            {ConnectError(outcome.kind), UnexpectedError(outcome.kind)}
      [] outcome.kind = "not_object" -> {UnexpectedError(outcome.kind)}

\* the JSON body of the POST, lines 24-28
Payload(prompt) == [model |-> MODEL_NAME, prompt |-> prompt, stream |-> FALSE]

\* ------------------------------------------------------------------------
\* Initial states
\* ------------------------------------------------------------------------
NoText == <<>>

Idle ==
    [ pc |-> "idle", file_path |-> NoText, user_query |-> NoText, prompt |-> NoText,
      payload |-> <<>>, http |-> "none", response_text |-> NoText, posts |-> 0,
      max_num |-> -1, next_num |-> -1, output_filepath |-> NoText,
      output_content |-> NoText, stdout |-> <<>>, stderr |-> <<>>,
      exit_code |-> -1, save |-> "none", fsAtStart |-> <<>>,
      dirAtStart |-> FALSE ]

SourceFile == <<"src", "/", "main.py">>
BinaryFile == <<"bin.dat">>
MissingFile == <<"gone.py">>

InputFiles ==
    (SourceFile :> <<"def main():", CR, LF, "  pass">>) @@ (BinaryFile :> <<BadByte>>)

OldContent == <<"an earlier response">>

Out00000 == <<"o", "u", "t", "-", "0", "0", "0", "0", "0", ".", "m", "d">>
Out00007Bak == <<"o", "u", "t", "-", "0", "0", "0", "0", "7", ".", "m", "d", ".", "b", "a", "k">>
Out0003 == <<"o", "u", "t", "-", "0", "0", "0", "3", ".", "m", "d">>
Out99999 == <<"o", "u", "t", "-", "9", "9", "9", "9", "9", ".", "m", "d">>
Out100000 == <<"o", "u", "t", "-", "1", "0", "0", "0", "0", "0", ".", "m", "d">>
Notes == <<"n", "o", "t", "e", "s", ".", "t", "x", "t">>

CandidateNames == {Out00000, Out00007Bak, Out0003, Out99999, Out100000}

ConcNames == {Out00000, Notes}

DirContents(names) == [q \in {OutputPath(n) : n \in names} |-> OldContent]

InitWith(candidates) ==
    /\ dirExists \in BOOLEAN
    /\ \E names \in SUBSET candidates :
          /\ Cardinality(names) <= MaxInitFiles
          /\ ~dirExists => names = {}
          /\ fs = DirContents(names) @@ InputFiles
    /\ inv = [p \in Procs |-> Idle]
    /\ runs = 0
    /\ calls = <<>>

Init == InitWith(CandidateNames)

\* ------------------------------------------------------------------------
\* main, step by step
\* ------------------------------------------------------------------------
Running(p) == inv[p].pc \notin {"idle", "done", "exited"}

Set(p, r) == inv' = [inv EXCEPT ![p] = r]

\* the process ends with the given status
Exit(r, code) == [r EXCEPT !.pc = IF code = 0 THEN "done" ELSE "exited", !.exit_code = code]

ArgFiles == {SourceFile, BinaryFile, MissingFile, OUTPUT_DIR, OutputPath(Out100000)}
ArgQueries == {<<"What does main do?">>}

\* main, lines 150-156: the arguments are parsed and two lines are printed
Start(p, files, queries) ==
    /\ ~Running(p)
    /\ runs < MaxRuns
    /\ \E f \in files, q \in queries :
          Set(p, [Idle EXCEPT
                    !.pc = "generate_prompt",
                    !.file_path = f,
                    !.user_query = q,
                    !.fsAtStart = fs,
                    !.dirAtStart = dirExists,
                    !.stdout = << <<"Analyzing '">> \o f \o <<"' with query: '">> \o q
                                      \o <<"'...">>,
                                  <<"Please wait for the response from Ollama...">> >>])
    /\ runs' = runs + 1
    /\ UNCHANGED <<fs, dirExists, calls>>

\* variant: the failure of open is not turned into sys.exit(1)
GeneratePromptNoExit(p) ==
    /\ inv[p].pc = "generate_prompt"
    /\ LET r == GeneratePromptResult(fs, dirExists, inv[p].file_path, inv[p].user_query) IN
          Set(p, [inv[p] EXCEPT !.pc = "get_response", !.prompt = r.prompt])
    /\ UNCHANGED <<fs, dirExists, runs, calls>>

\* main, line 159: generate_prompt, lines 55-82
GeneratePrompt(p) ==
    /\ inv[p].pc = "generate_prompt"
    /\ LET r == GeneratePromptResult(fs, dirExists, inv[p].file_path, inv[p].user_query)
           me == inv[p]
       IN CASE r.kind = "ok" ->
                  Set(p, [me EXCEPT !.pc = "get_response", !.prompt = r.prompt])
            [] r.kind = "not_found" ->
                  Set(p, Exit([me EXCEPT !.stderr = Append(@,
                        <<"Error: The file '">> \o me.file_path \o <<"' was not found.">>)], 1))
            [] r.kind = "io_error" ->
                  Set(p, Exit([me EXCEPT !.stderr = Append(@,
                        <<"Error: Could not read the file '">> \o me.file_path \o <<"'.">>)], 1))
            \* UnicodeDecodeError is no IOError: it is not caught, and the
            \* interpreter prints the traceback and ends with status 1
            [] r.kind = "decode_error" ->
                  Set(p, Exit([me EXCEPT !.stderr = Append(@,
                        <<"Traceback", "UnicodeDecodeError">>)], 1))
    /\ UNCHANGED <<fs, dirExists, runs, calls>>

\* variant: a failed request is sent a second time
GetResponseRetrying(p, outcomes) ==
    /\ inv[p].pc = "get_response"
    /\ \E o \in outcomes : \E t \in ReturnTexts(o) :
          Set(p, [inv[p] EXCEPT
                    !.pc = IF o.kind \in FailureKinds /\ inv[p].posts = 0
                           THEN "get_response" ELSE "print",
                    !.posts = @ + 1,
                    !.http = o.kind,
                    !.response_text = t])
    /\ UNCHANGED <<fs, dirExists, runs, calls>>

\* variant: a failed request ends the process
GetResponseRaising(p, outcomes) ==
    /\ inv[p].pc = "get_response"
    /\ \E o \in outcomes : \E t \in ReturnTexts(o) :
          IF o.kind \in FailureKinds
          THEN Set(p, Exit([inv[p] EXCEPT !.posts = @ + 1, !.http = o.kind,
                                          !.stderr = Append(@, <<"Traceback", o.kind>>)], 1))
          ELSE Set(p, [inv[p] EXCEPT !.pc = "print", !.posts = @ + 1, !.http = o.kind,
                                     !.response_text = t])
    /\ UNCHANGED <<fs, dirExists, runs, calls>>

\* main, line 160: get_response_from_ollama, lines 24-41
GetResponse(p, outcomes) ==
    /\ inv[p].pc = "get_response"
    /\ \E o \in outcomes : \E t \in ReturnTexts(o) :
          Set(p, [inv[p] EXCEPT
                    !.pc = "print",
                    !.payload = Payload(inv[p].prompt),
                    !.posts = @ + 1,
                    !.http = o.kind,
                    !.response_text = t])
    /\ UNCHANGED <<fs, dirExists, runs, calls>>

\* main, lines 163-165
PrintResponse(p) ==
    /\ inv[p].pc = "print"
    /\ Set(p, [inv[p] EXCEPT
                !.pc = "save_exists",
                !.stdout = @ \o << <<LF, "--- ASSISTANT RESPONSE ---">>,
                                   inv[p].response_text,
                                   <<"--------------------------", LF>> >>])
    /\ UNCHANGED <<fs, dirExists, runs, calls>>

\* save_response_to_file, line 95
SaveExists(p) ==
    /\ inv[p].pc = "save_exists"
    /\ Set(p, [inv[p] EXCEPT !.pc = IF dirExists THEN "save_scan" ELSE "save_makedirs"])
    /\ UNCHANGED <<fs, dirExists, runs, calls>>

\* save_response_to_file, lines 96-100: makedirs fails when the parent is not
\* writable, and also when another process made the directory meanwhile
SaveMakedirs(p) ==
    /\ inv[p].pc = "save_makedirs"
    /\ \E ok \in BOOLEAN :
          IF ok /\ ~dirExists
          THEN /\ dirExists' = TRUE
               /\ Set(p, [inv[p] EXCEPT !.pc = "save_scan"])
          ELSE /\ UNCHANGED dirExists
               /\ Set(p, Exit([inv[p] EXCEPT
                        !.save = "makedirs_failed",
                        !.stderr = Append(@, <<"Error: Could not create output directory '">>
                                               \o OUTPUT_DIR \o <<"': ", "OSError">>)], 0))
    /\ UNCHANGED <<fs, runs, calls>>

\* save_response_to_file, lines 103-120: the scan of the directory, the next
\* number, the path and the content
SaveScan(p) ==
    /\ inv[p].pc = "save_scan"
    /\ \E ok \in BOOLEAN :
          IF ok
          THEN LET m == ScanMaxNum(Listing(fs)) IN
               Set(p, [inv[p] EXCEPT
                        !.pc = "save_open",
                        !.max_num = m,
                        !.next_num = m + 1,
                        !.output_filepath = OutputPath(OutputName(m + 1)),
                        !.output_content = OutputContent(inv[p].file_path,
                                              inv[p].user_query, inv[p].response_text)])
          ELSE Set(p, Exit([inv[p] EXCEPT
                        !.save = "listdir_failed",
                        !.stderr = Append(@, <<"Error: Could not read output directory '">>
                                               \o OUTPUT_DIR \o <<"': ", "OSError">>)], 0))
    /\ UNCHANGED <<fs, dirExists, runs, calls>>

\* variant: a failed save ends the process with status 1
SaveFailedExiting(r) ==
    Exit([r EXCEPT !.stderr = Append(@, <<"Error: Could not save response to '">>
                                         \o r.output_filepath \o <<"': ", "OSError">>)], 1)

\* save_response_to_file, lines 126-127: the message, and the return to main
SaveFailed(r) ==
    Exit([r EXCEPT !.stderr = Append(@, <<"Error: Could not save response to '">>
                                         \o r.output_filepath \o <<"': ", "OSError">>)], 0)

\* save_response_to_file, line 123: open(output_filepath, 'w') creates the
\* file, or empties the one that is there
SaveOpen(p) ==
    /\ inv[p].pc = "save_open"
    /\ \E ok \in BOOLEAN :
          IF ok
          THEN /\ fs' = WriteFile(fs, inv[p].output_filepath, <<>>)
               /\ Set(p, [inv[p] EXCEPT !.pc = "save_write"])
          ELSE /\ UNCHANGED fs
               /\ Set(p, SaveFailed([inv[p] EXCEPT !.save = "open_failed"]))
    /\ UNCHANGED <<dirExists, runs, calls>>

\* a write of content at offset 0 of a file that holds old
Overlay(old, content) == content \o SubSeq(old, Len(content) + 1, Len(old))

\* variant: the file is opened and closed, nothing is written
SaveWriteNothing(p) ==
    /\ inv[p].pc = "save_write"
    /\ Set(p, Exit([inv[p] EXCEPT !.save = "ok"], 0))
    /\ UNCHANGED <<fs, dirExists, runs, calls>>

\* save_response_to_file, lines 124-127: f.write and the close of the file.
\* When they fail (disk full, quota) a part of the text short of the whole
\* may have reached the file: none of it, or all but its end.
SaveWrite(p) ==
    /\ inv[p].pc = "save_write"
    /\ LET path == inv[p].output_filepath
           text == inv[p].output_content
       IN \/ /\ fs' = WriteFile(fs, path, Overlay(fs[path], text))
             /\ Set(p, Exit([inv[p] EXCEPT
                        !.save = "ok",
                        !.stdout = Append(@, <<"Response saved to '">> \o path \o <<"'">>)], 0))
          \/ \E k \in {0, Len(text) - 1} :
                /\ fs' = WriteFile(fs, path, Overlay(fs[path], SubSeq(text, 1, k)))
                /\ Set(p, SaveFailed([inv[p] EXCEPT !.save = "write_failed"]))
    /\ UNCHANGED <<dirExists, runs, calls>>

\* one step of the invocation run by process p
Step(p, files, queries, outcomes) ==
    \/ Start(p, files, queries)
    \/ GeneratePrompt(p)
    \/ GetResponse(p, outcomes)
    \/ PrintResponse(p)
    \/ SaveExists(p)
    \/ SaveMakedirs(p)
    \/ SaveScan(p)
    \/ SaveOpen(p)
    \/ SaveWrite(p)

\* ------------------------------------------------------------------------
\* Sequential invocations: one process, one run after the other
\* ------------------------------------------------------------------------
Next == Step(1, ArgFiles, ArgQueries, HttpOutcomes)

Spec == Init /\ [][Next]_vars

\* ------------------------------------------------------------------------
\* Concurrent invocations against the same output directory
\* ------------------------------------------------------------------------
ConcFiles == {SourceFile}
ConcQueries == {<<"What does main do?">>, <<"Is it fast?">>}
ConcOutcomes == {o \in HttpOutcomes : o.kind \in {"ok", "timeout"}}

InitConc == InitWith(ConcNames)

NextConc == \E p \in Procs : Step(p, ConcFiles, ConcQueries, ConcOutcomes)

SpecConc == InitConc /\ [][NextConc]_vars

\* ------------------------------------------------------------------------
\* generate_prompt called on its own, on files that change between calls
\* ------------------------------------------------------------------------
RawTexts ==
    { <<>>, <<"x = 1">>, <<"x = 1", LF>>, <<"x = 1", CR, LF>>, <<"x = 1", CR>>,
      PromptMiddle, <<BadByte>> }

PromptFiles == {SourceFile, MissingFile}
PromptQueries == {<<>>, <<"why?">>, PromptMiddle \o <<"why?">>}

InitPrompt ==
    /\ dirExists = FALSE
    /\ \E raw \in RawTexts : fs = (SourceFile :> raw)
    /\ inv = [p \in Procs |-> Idle]
    /\ runs = 0
    /\ calls = <<>>

CallGeneratePrompt ==
    /\ Len(calls) < MaxCalls
    /\ \E f \in PromptFiles, q \in PromptQueries :
          calls' = Append(calls,
                      [ file_path |-> f,
                        raw |-> IF f \in DOMAIN fs THEN fs[f] ELSE <<>>,
                        user_query |-> q,
                        result |-> GeneratePromptResult(fs, dirExists, f, q) ])
    /\ UNCHANGED <<fs, dirExists, inv, runs>>

\* the user edits the source file between two calls
EditFile ==
    /\ Len(calls) < MaxCalls
    /\ \E raw \in RawTexts : fs' = WriteFile(fs, SourceFile, raw)
    /\ UNCHANGED <<dirExists, inv, runs, calls>>

NextPrompt == CallGeneratePrompt \/ EditFile

SpecPrompt == InitPrompt /\ [][NextPrompt]_vars

\* ------------------------------------------------------------------------
\* Properties
\* ------------------------------------------------------------------------
Past(p, stages) == inv[p].pc \in stages

SaveStages == {"save_exists", "save_makedirs", "save_scan", "save_open", "save_write"}

\* the input file of p's run did not exist when the run started
MissingInput(p) ==
    OpenAndRead(inv[p].fsAtStart, inv[p].dirAtStart, inv[p].file_path).kind = "not_found"

\* C1: a run whose input file does not exist goes from generate_prompt
\* straight to a non-zero exit: it has sent no POST and the files are
\* as they were when it started, the output directory included.
C1_MissingInputExitsBeforePost ==
    \A p \in Procs :
        (MissingInput(p) /\ ~Past(p, {"idle", "generate_prompt"})) =>
            /\ inv[p].pc = "exited"
            /\ inv[p].exit_code # 0
            /\ inv[p].posts = 0
            /\ fs = inv[p].fsAtStart
            /\ dirExists = inv[p].dirAtStart

C1_Witness ==
    \E p \in Procs :
        /\ inv[p].pc = "exited"
        /\ inv[p].file_path = MissingFile
        /\ MissingInput(p)
        /\ inv[p].dirAtStart

\* C7: a run sends at most one POST, failed or not; a run that read its input
\* file has sent exactly one by the time the call has returned, and a run
\* that ended in generate_prompt has sent none.
C7_AtMostOnePost ==
    \A p \in Procs :
        /\ inv[p].posts <= 1
        /\ Past(p, {"print", "done"} \cup SaveStages) => inv[p].posts = 1
        /\ Past(p, {"idle", "generate_prompt", "get_response", "exited"}) => inv[p].posts = 0
        /\ Past(p, {"exited"}) =>
              OpenAndRead(inv[p].fsAtStart, inv[p].dirAtStart, inv[p].file_path).kind # "ok"

C7_Witness ==
    \E p \in Procs :
        /\ inv[p].pc = "done"
        /\ inv[p].http = "timeout"
        /\ inv[p].posts = 1

\* C6: after a failed HTTP call the run holds an error string as the response
\* text, has not exited, prints that string as the result and goes through
\* the save step with it: the content to save is built from it, and a
\* successful save has put it in the file.
C6_HttpFailureContinues ==
    \A p \in Procs :
        inv[p].http \in FailureKinds =>
            /\ inv[p].response_text \in ErrorStrings
            /\ Past(p, {"print", "done"} \cup SaveStages)
            /\ inv[p].exit_code \in {-1, 0}
            /\ Past(p, {"done"} \cup SaveStages) =>
                  /\ Len(inv[p].stdout) >= 5
                  /\ inv[p].stdout[4] = inv[p].response_text
            /\ Past(p, {"done"}) => inv[p].save # "none"
            /\ Past(p, {"save_open", "save_write"}) \/ inv[p].save \in {"ok", "open_failed", "write_failed"} =>
                  inv[p].output_content =
                      OutputContent(inv[p].file_path, inv[p].user_query, inv[p].response_text)
            /\ inv[p].save = "ok" =>
                  Contains(fs[inv[p].output_filepath], inv[p].response_text)

C6_Witness ==
    \E p \in Procs :
        /\ inv[p].http = "http_error"
        /\ inv[p].pc = "done"
        /\ inv[p].save = "ok"
        /\ fs[inv[p].output_filepath] = inv[p].output_content

SaveFailures == {"makedirs_failed", "listdir_failed", "open_failed", "write_failed"}

\* the files other than path are the same in f and g
SameExcept(f, g, path) ==
    /\ DOMAIN f \ {path} = DOMAIN g \ {path}
    /\ \A q \in DOMAIN f \ {path} : f[q] = g[q]

IsPrefix(s, t) == Len(s) <= Len(t) /\ SubSeq(t, 1, Len(s)) = s

\* C8 as stated: whichever step of the save fails, the run ends normally with
\* a message on stderr and the files are exactly those it started with.
C8_FailedSaveChangesNothing ==
    \A p \in Procs :
        inv[p].save \in SaveFailures =>
            /\ inv[p].pc = "done"
            /\ inv[p].exit_code = 0
            /\ Len(inv[p].stderr) = 1
            /\ fs = inv[p].fsAtStart

\* C8, amended: a failed save ends the run normally with one message on
\* stderr.  When makedirs, listdir or open failed the files are exactly those
\* the run started with.  When the write failed after open had succeeded, the
\* target file is left behind, empty or holding an incomplete text, and every
\* other file is as it was.
C8_FailedSaveEndsNormally ==
    \A p \in Procs :
        inv[p].save \in SaveFailures =>
            /\ inv[p].pc = "done"
            /\ inv[p].exit_code = 0
            /\ Len(inv[p].stderr) = 1
            /\ inv[p].save # "write_failed" => fs = inv[p].fsAtStart
            /\ inv[p].save = "write_failed" =>
                  /\ SameExcept(fs, inv[p].fsAtStart, inv[p].output_filepath)
                  /\ inv[p].output_filepath \in DOMAIN fs
                  /\ IsPrefix(fs[inv[p].output_filepath], inv[p].output_content)
                  /\ fs[inv[p].output_filepath] # inv[p].output_content

C8_Witness ==
    \E p \in Procs :
        /\ inv[p].pc = "done"
        /\ inv[p].save = "write_failed"
        /\ inv[p].output_filepath \notin DOMAIN inv[p].fsAtStart
        /\ fs[inv[p].output_filepath] = <<>>

\* C5: when two concurrent invocations have both saved to the same path, the
\* file holds the text of the one that wrote last (followed by what is left
\* of the other's text when that was longer): two saves, one file.
C5_SamePathHoldsLastWriter ==
    \A p, q \in Procs :
        ( /\ p # q
          /\ inv[p].pc = "done" /\ inv[p].save = "ok"
          /\ inv[q].pc = "done" /\ inv[q].save = "ok"
          /\ inv[p].output_filepath = inv[q].output_filepath ) =>
            /\ inv[p].max_num = inv[q].max_num
            /\ fs[inv[p].output_filepath] \in
                  { inv[p].output_content, inv[q].output_content,
                    Overlay(inv[p].output_content, inv[q].output_content),
                    Overlay(inv[q].output_content, inv[p].output_content) }

\* both scanned the empty directory, both chose out-00000.md, and the file
\* holds one response only
C5_Witness ==
    \E p, q \in Procs :
        /\ p # q
        /\ inv[p].pc = "done" /\ inv[p].save = "ok"
        /\ inv[q].pc = "done" /\ inv[q].save = "ok"
        /\ inv[p].output_filepath = inv[q].output_filepath
        /\ inv[p].user_query # inv[q].user_query
        /\ fs[inv[q].output_filepath] = inv[q].output_content
        /\ ~Contains(fs[inv[p].output_filepath], inv[p].user_query)

\* the calls that returned a prompt
Returned == {i \in 1..Len(calls) : calls[i].result.kind = "ok"}

IsSuffix(s, t) == Len(s) <= Len(t) /\ SubSeq(t, Len(t) - Len(s) + 1, Len(t)) = s

\* the prompt is the template around the text and the query
InTemplate(prompt, file_path, text, user_query) ==
    /\ IsPrefix(system_prompt \o <<LF, LF, CodeFileHeader>> \o file_path \o <<HeaderEnd, LF>>
                \o <<Fence, LF>> \o text \o <<LF, Fence, LF, LF>>, prompt)
    /\ IsSuffix(<<QuestionHeader, LF>> \o user_query, prompt)
    /\ Len(prompt) = Len(system_prompt) + Len(file_path) + Len(text) + Len(user_query) + 13

\* C4 as stated: the prompt is the template around the unmodified contents of
\* the file and the query; equal inputs give equal prompts, and for the same
\* path the prompts differ whenever the contents or the queries differ.
C4_PromptEmbedsExactContents ==
    \A i, j \in Returned :
        /\ InTemplate(calls[i].result.prompt, calls[i].file_path, calls[i].raw,
                      calls[i].user_query)
        /\ calls[i].file_path = calls[j].file_path =>
              ( calls[i].result.prompt = calls[j].result.prompt
                  <=> ( /\ calls[i].raw = calls[j].raw
                        /\ calls[i].user_query = calls[j].user_query ) )

\* C4, amended: the prompt is the template around the text of the file as
\* text mode reads it (CR LF and CR turned into LF, nothing else changed) and
\* the exact query; equal inputs give equal prompts; for the same path the
\* prompts differ when the texts read differ and the queries are equal, and
\* when the queries differ and the texts read are equal.
C4_PromptEmbedsTextAsRead ==
    \A i, j \in Returned :
        /\ InTemplate(calls[i].result.prompt, calls[i].file_path, ReadText(calls[i].raw),
                      calls[i].user_query)
        /\ ( /\ calls[i].file_path = calls[j].file_path
             /\ calls[i].raw = calls[j].raw
             /\ calls[i].user_query = calls[j].user_query )
              => calls[i].result.prompt = calls[j].result.prompt
        /\ ( /\ calls[i].file_path = calls[j].file_path
             /\ ReadText(calls[i].raw) # ReadText(calls[j].raw)
             /\ calls[i].user_query = calls[j].user_query )
              => calls[i].result.prompt # calls[j].result.prompt
        /\ ( /\ calls[i].file_path = calls[j].file_path
             /\ ReadText(calls[i].raw) = ReadText(calls[j].raw)
             /\ calls[i].user_query # calls[j].user_query )
              => calls[i].result.prompt # calls[j].result.prompt

\* two calls on a file edited in between: CR LF against LF, same query
C4_Witness ==
    /\ Len(calls) = 2
    /\ Returned = {1, 2}
    /\ calls[1].raw = <<"x = 1", CR, LF>>
    /\ calls[2].raw = <<"x = 1">>
    /\ calls[1].user_query = calls[2].user_query
    /\ calls[1].result.prompt # calls[2].result.prompt

\* a name of the form out-NNNNN.md, the whole name
IsOutName(name) ==
    /\ Len(name) = Len(NamePrefix) + Width + Len(NameSuffix)
    /\ PatternMatch(name)

\* the number the naming convention asks for: one more than the largest
\* number among the out-NNNNN.md names, 0 when there is none
ConventionNext(listing) ==
    LET nums == {ParseInt(Group1(f)) : f \in {g \in listing : IsOutName(g)}}
    IN IF nums = {} THEN 0 ELSE 1 + (CHOOSE m \in nums : \A k \in nums : k <= m)

RECURSIVE Pow10(_)
Pow10(k) == IF k = 0 THEN 1 ELSE 10 * Pow10(k - 1)

\* C2: the number chosen by the scan is one more than the largest number
\* among the out-NNNNN.md names of the directory, 0 when there is none, and
\* is a number of five digits.
C2_NextIsMaxPlusOne ==
    \A p \in Procs :
        inv[p].pc = "save_open" =>
            /\ inv[p].next_num = ConventionNext(Listing(fs))
            /\ inv[p].next_num < Pow10(Width)

\* C3: every file a save has written is named out-, five digits, .md, and the
\* scan of a later run recognises the name.
C3_WrittenNameIsWellFormed ==
    \A p \in Procs :
        (inv[p].pc = "done" /\ inv[p].save = "ok") =>
            LET name == SubSeq(inv[p].output_filepath, 3, Len(inv[p].output_filepath))
            IN /\ IsOutputFile(inv[p].output_filepath)
               /\ IsOutName(name)
               /\ ParseInt(Group1(name)) = inv[p].next_num

\* C9: a successful save of a sequential run creates a file that was not
\* there when the run started: one file more, every earlier file as it was.
C9_SaveNeverOverwrites ==
    \A p \in Procs :
        (inv[p].pc = "done" /\ inv[p].save = "ok") =>
            /\ inv[p].output_filepath \notin DOMAIN inv[p].fsAtStart
            /\ Cardinality(Listing(fs)) = Cardinality(Listing(inv[p].fsAtStart)) + 1
            /\ \A q \in DOMAIN inv[p].fsAtStart :
                  q \in DOMAIN fs /\ fs[q] = inv[p].fsAtStart[q]

\* C10: a run changes the files only after the response has been received
\* and printed, changes no file but the chosen out-NNNNN.md of the output
\* directory, leaves its input file as it was, and a successful save has
\* written a text holding the base name, the query and the response.
C10_WritesOnlyTheChosenFile ==
    \A p \in Procs :
        /\ fs # inv[p].fsAtStart /\ inv[p].pc # "idle" =>
              /\ Past(p, {"save_write", "done"})
              /\ inv[p].posts = 1
              /\ inv[p].stdout[4] = inv[p].response_text
              /\ SameExcept(fs, inv[p].fsAtStart, inv[p].output_filepath)
              /\ IsOutputFile(inv[p].output_filepath)
        /\ (inv[p].pc # "idle" /\ inv[p].file_path \in DOMAIN inv[p].fsAtStart) =>
              /\ inv[p].file_path \in DOMAIN fs
              /\ fs[inv[p].file_path] = inv[p].fsAtStart[inv[p].file_path]
        /\ (inv[p].pc = "done" /\ inv[p].save = "ok") =>
              /\ Contains(fs[inv[p].output_filepath], Basename(inv[p].file_path))
              /\ Contains(fs[inv[p].output_filepath], inv[p].user_query)
              /\ Contains(fs[inv[p].output_filepath], inv[p].response_text)

====
